---- MODULE Spec2Model ----
(***************************************************************************)
(* ProblY: random variables as nodes of a lazy computation graph.          *)
(*                                                                         *)
(* The repository holds four revisions of the engine, each modelled here   *)
(* from its source:                                                        *)
(*   "rvar"      src/probly.py            networkx DiGraph store           *)
(*   "rvarGen"   src/probly/__init__.py   networkx MultiDiGraph store      *)
(*   "RandomVar" src/probly/core.py       parents kept in the node         *)
(*   "lift"      src/probly/lib/utils.py  lift over RandomVariable         *)
(* probly.py and the package probly/ answer to the same import name, so a  *)
(* process runs one revision: Init chooses it (impl) and it never changes. *)
(*                                                                         *)
(* Python values are records [t, v]: an int n is [t |-> "int", v |-> <<n>>],*)
(* a list/tuple of ints is [t |-> "seq", v |-> <<...>>], None is "none",   *)
(* and a raised exception is the value Err, which aborts the enclosing     *)
(* call as an exception does.                                              *)
(***************************************************************************)
EXTENDS Integers, Sequences, FiniteSets, TLC

VARIABLES
  impl,      \* the revision loaded by the process
  objs,      \* every object constructed so far, in construction order
  graph,     \* the class attribute `graph` of rvar / rvarGen
  last_id,   \* RandomVar._last_id: the next value of the itertools counter
  rng,       \* the global generators: [np |-> numpy.random, py |-> random]
  last,      \* what the last operation did and returned
  thr,       \* the evaluating threads (SpecThreads)
  built      \* construction has finished (SpecThreads)

vars == <<impl, objs, graph, last_id, rng, last, thr, built>>

----------------------------------------------------------------------------
(* Bounds of the model *)

\* width of a seed in bits; the code has 32 (max_seed = 2^32 - 1)
SeedBits == 3
\* objects a process constructs
MaxNodes == 3

TwoW == 2 ^ SeedBits

\* probly.py:13, core.py:103  _max_seed = 2 ** 32 - 1, at the model's width
max_seed == TwoW - 1

----------------------------------------------------------------------------
(* Python values *)

IntV(n) == [t |-> "int", v |-> <<n>>]
SeqV(s) == [t |-> "seq", v |-> s]
NoneV == [t |-> "none", v |-> <<>>]
Err == [t |-> "err", v |-> <<>>]

\* a sequence inside d >= 1 further sequences of length 1: [[1, 2]] is
\* Nest(1, <<1, 2>>), [[[5]]] is Nest(2, <<5>>)
Nest(d, s) == [t |-> "nest", v |-> <<d>> \o s]

\* [x]
Wrap(x) ==
  CASE x.t = "int" -> SeqV(x.v)
    [] x.t = "seq" -> Nest(1, x.v)
    [] x.t = "nest" -> Nest(x.v[1] + 1, Tail(x.v))
    [] OTHER -> Err

\* hasattr(x, '__len__') and len(x) == 1
HasLenOne(x) == (x.t = "seq" /\ Len(x.v) = 1) \/ x.t = "nest"

\* x[0] of a sequence that has an element
Item0(x) ==
  CASE x.t = "seq" -> IntV(x.v[1])
    [] x.t = "nest" /\ x.v[1] = 1 -> SeqV(Tail(x.v))
    [] x.t = "nest" /\ x.v[1] > 1 -> Nest(x.v[1] - 1, Tail(x.v))

\* Callables and raw objects that are handed in as `op` / `sampler` / `f`
\*   "value"    a raw object c that is not callable (a constant, or None)
\*   "constfn"  lambda seed=None: c   /   lambda *x: c
\*   "ident"    lambda *x: x
\*   "numpy"    seeded_sampler / _sampler: numpy.random.seed(seed), then a
\*              draw from numpy.random
\*   "random"   seeded_sampler: random.seed(seed), then a draw from random
\*   "seedconst" seeded_sampler around lambda seed=None: c (rvarGen._cast)
\*   "sub" (a, b) -> a - b,  "subt" (a, b) -> (a - b,),  "neg" a -> -a,
\*   "get"  arr -> arr[0],  "array"  make_array: (*args) -> np.array(args)
\*   "wrap"  a -> [a],  "wrap2"  a -> [[a]]
Value(c) == [k |-> "value", c |-> c]
ConstFn(c) == [k |-> "constfn", c |-> c]
Fn(k) == [k |-> k, c |-> NoneV]

callable(op) == op.k # "value"

\* Python truth value of an object: `not op`
Truthy(op) ==
  \/ op.k # "value"
  \/ /\ op.c.t = "int"
     /\ op.c.v[1] # 0
  \/ /\ op.c.t = "seq"
     /\ op.c.v # <<>>

IsInt(x) == x.t = "int"

\* f(*args) for the pure callables; a TypeError / IndexError is Err
Apply(op, args) ==
  CASE op.k = "constfn" -> op.c
    [] op.k = "ident" ->
         IF \A i \in 1..Len(args) : IsInt(args[i])
         THEN SeqV([i \in 1..Len(args) |-> args[i].v[1]])
         ELSE Err
    [] op.k = "sub" ->
         IF Len(args) = 2 /\ IsInt(args[1]) /\ IsInt(args[2])
         THEN IntV(args[1].v[1] - args[2].v[1])
         ELSE Err
    [] op.k = "subt" ->
         IF Len(args) = 2 /\ IsInt(args[1]) /\ IsInt(args[2])
         THEN SeqV(<<args[1].v[1] - args[2].v[1]>>)
         ELSE Err
    [] op.k = "neg" ->
         IF Len(args) = 1 /\ IsInt(args[1])
         THEN IntV(0 - args[1].v[1])
         ELSE Err
    [] op.k = "array" ->
         IF \A i \in 1..Len(args) : IsInt(args[i])
         THEN SeqV([i \in 1..Len(args) |-> args[i].v[1]])
         ELSE Err
    [] op.k = "get" ->
         IF Len(args) = 1
            /\ ((args[1].t = "seq" /\ args[1].v # <<>>) \/ args[1].t = "nest")
         THEN Item0(args[1])
         ELSE Err
    [] op.k = "wrap" ->
         IF Len(args) = 1 THEN Wrap(args[1]) ELSE Err
    [] op.k = "wrap2" ->
         IF Len(args) = 1 /\ Wrap(args[1]) # Err THEN Wrap(Wrap(args[1]))
         ELSE Err
    [] OTHER -> Err

----------------------------------------------------------------------------
(* The library generators, as far as the code relies on them: seeding      *)
(* sets the whole state from the seed, a draw is a function of the state   *)
(* and advances it.                                                        *)

Seeded(seed) == seed % TwoW
Draw(st) == 2 * st + 1
Advance(st) == (st + 1) % TwoW

\* numpy.random.get_state()[1][0] after numpy.random.seed(s) is s, and
\* [1][1] is 1812433253 * (s ^ (s >> 30)) + 1 mod 2^32 (s < 2^30 here)
Word0(st) == st
Word1(st) == ((1812433253 % TwoW) * st + 1) % TwoW

\* seed=None: no seed was supplied
None == -1

\* mutant: the numpy sampler draws without seeding the generator first
SamplerCall_unseeded(op, seed, st) ==
  CASE op.k = "numpy" ->
         [out |-> IntV(Draw(st.np)), st |-> [st EXCEPT !.np = Advance(st.np)]]
    [] op.k = "random" ->
         [out |-> IntV(Draw(Seeded(seed))),
          st |-> [st EXCEPT !.py = Advance(Seeded(seed))]]
    [] op.k = "seedconst" ->
         [out |-> op.c, st |-> [st EXCEPT !.py = Seeded(seed)]]
    [] op.k = "value" -> [out |-> Err, st |-> st]
    [] OTHER -> [out |-> Apply(op, <<IntV(seed)>>), st |-> st]

\* sampler(seed) of a leaf; st is the state of the generators before the call
SamplerCall(op, seed, st) ==
  CASE op.k = "numpy" ->
         [out |-> IntV(Draw(Seeded(seed))),
          st |-> [st EXCEPT !.np = Advance(Seeded(seed))]]
    [] op.k = "random" ->
         [out |-> IntV(Draw(Seeded(seed))),
          st |-> [st EXCEPT !.py = Advance(Seeded(seed))]]
    [] op.k = "seedconst" ->
         [out |-> op.c, st |-> [st EXCEPT !.py = Seeded(seed)]]
    [] op.k = "value" -> [out |-> Err, st |-> st]
    [] OTHER -> [out |-> Apply(op, <<IntV(seed)>>), st |-> st]

----------------------------------------------------------------------------
(* src/probly/core.py *)

\* RandomVar.get_seed: numpy.random.seed(seed), then a word of the state;
\* with seed=None numpy seeds itself from the system's entropy
get_seed_np(seed, offset, st, entropy) ==
  LET np == IF seed = None THEN entropy ELSE Seeded(seed)
  IN  [out |-> IF offset THEN Word1(np) ELSE Word0(np),
       st |-> [st EXCEPT !.np = np]]

\* Node.__init__: which callable becomes _op; the assertion fails for a
\* falsy op with parents
Node_init(op, parents) ==
  IF ~Truthy(op) THEN [ok |-> parents = <<>>, op |-> Fn("ident")]
  ELSE IF ~callable(op) THEN [ok |-> TRUE, op |-> ConstFn(op.c)]
  ELSE [ok |-> TRUE, op |-> op]

\* mutant: every node gets an offset, a dependent RandomVar too
RandomVar_offset_all(subclass, id, st, entropy) ==
  get_seed_np(id, TRUE, st, entropy)

\* the offset __new__ gives a node: 0 for RandomVar itself, a state word of
\* the generator seeded with _id for a subclass
RandomVar_offset(subclass, id, st, entropy) ==
  IF subclass THEN get_seed_np(id, TRUE, st, entropy)
  ELSE [out |-> 0, st |-> st]

\* RandomVar.__new__
RandomVar_new(subclass, op, parents, id, st) ==
  LET o == RandomVar_offset(subclass, id, st, 0)
      n == Node_init(IF subclass THEN Fn("numpy") ELSE op,
                     IF subclass THEN <<>> ELSE parents)
  IN  [ok |-> n.ok,
       st |-> o.st,
       obj |-> [id |-> id, offset |-> o.out, op |-> n.op,
                parents |-> IF subclass THEN <<>> ELSE parents]]

RECURSIVE Collapse_deep(_)
\* mutant: unwraps as long as the result has length 1
Collapse_deep(out) ==
  IF HasLenOne(out) THEN Collapse_deep(Item0(out)) ELSE out

\* For length 1 tuples: hasattr(out, '__len__') and len(out) == 1
Collapse(out) ==
  IF HasLenOne(out) THEN Item0(out) ELSE out

\* the seed RandomVar.__call__ hands on
new_seed(seed, offset) == (seed + offset) % max_seed

RECURSIVE RandomVar_call(_, _, _, _, _)
RECURSIVE Node_inputs(_, _, _, _, _)

RECURSIVE Node_inputs_reversed(_, _, _, _, _)
\* mutant: the parents are taken last to first
Node_inputs_reversed(os, ps, i, arg, acc) ==
  IF i > Len(ps) \/ ~acc.ok THEN acc
  ELSE LET r == RandomVar_call(os, ps[Len(ps) + 1 - i], arg, acc.st, 0)
       IN  Node_inputs_reversed(os, ps, i + 1, arg,
                                [vals |-> Append(acc.vals, r.out),
                                 st |-> r.st, ev |-> acc.ev \o r.ev,
                                 ok |-> r.out # Err])

\* inputs = (p(*args) for p in self._parents), consumed left to right; the
\* first exception ends the call
Node_inputs(os, ps, i, arg, acc) ==
  IF i > Len(ps) \/ ~acc.ok THEN acc
  ELSE LET r == RandomVar_call(os, ps[i], arg, acc.st, 0)
       IN  Node_inputs(os, ps, i + 1, arg,
                       [vals |-> Append(acc.vals, r.out), st |-> r.st,
                        ev |-> acc.ev \o r.ev, ok |-> r.out # Err])

\* Node.__call__
Node_call(os, n, arg, st) ==
  IF os[n].parents = <<>>
  THEN LET r == SamplerCall(os[n].op, arg, st)
       IN  [out |-> IF r.out = Err THEN Err ELSE Collapse(r.out),
            st |-> r.st, ev |-> <<>>]
  ELSE LET a == Node_inputs(os, os[n].parents, 1, arg,
                            [vals |-> <<>>, st |-> st, ev |-> <<>>,
                             ok |-> TRUE])
       IN  [out |-> IF a.ok THEN Collapse(Apply(os[n].op, a.vals))
                    ELSE Err,
            st |-> a.st, ev |-> a.ev]

\* RandomVar.__call__; ev lists the evaluations it made, innermost first:
\* node, the seed it was called with, the seed handed to its _op, its value
RandomVar_call(os, n, seed, st, entropy) ==
  LET g == get_seed_np(seed, FALSE, st, entropy)
      s == new_seed(g.out, os[n].offset)
      r == Node_call(os, n, s, g.st)
  IN  [out |-> r.out, st |-> r.st, base |-> g.out,
       ev |-> Append(r.ev, [node |-> n, seed |-> g.out, local |-> s,
                            out |-> r.out])]

----------------------------------------------------------------------------
(* The networkx graph of src/probly.py (DiGraph) and of                     *)
(* src/probly/__init__.py (MultiDiGraph): nodes, the `method` attribute of  *)
(* the nodes that have one, and the edges in the order they were first      *)
(* added, each with its key and its `index` attribute.                      *)

add_node(g, n, f) ==
  [g EXCEPT !.nodes = @ \cup {n}, !.method = (n :> f) @@ @]

\* DiGraph.add_edge(u, v, index=i): one edge per (u, v); adding it again
\* updates its attributes; MultiDiGraph.add_edge adds a parallel edge under
\* the next key
add_edge(multi, g, u, v, i) ==
  LET same == {j \in 1..Len(g.edges) : g.edges[j].u = u /\ g.edges[j].v = v}
      es == IF multi \/ same = {}
            THEN Append(g.edges, [u |-> u, v |-> v, key |-> Cardinality(same),
                                  index |-> i])
            ELSE [j \in 1..Len(g.edges) |->
                    IF j \in same THEN [g.edges[j] EXCEPT !.index = i]
                    ELSE g.edges[j]]
  IN  [g EXCEPT !.nodes = @ \cup {u, v}, !.edges = es]

RECURSIVE add_edges_from(_, _, _, _, _)
\* add_edges_from([(us[i], v, {'index': i - 1})]), from edge number i on
add_edges_from(multi, g, us, v, i) ==
  IF i > Len(us) THEN g
  ELSE add_edges_from(multi, add_edge(multi, g, us[i], v, i - 1), us, v, i + 1)

RECURSIVE Firsts(_, _, _, _)
Firsts(es, n, i, acc) ==
  IF i > Len(es) THEN acc
  ELSE Firsts(es, n, i + 1,
              IF es[i].v = n /\ \A j \in 1..Len(acc) : acc[j] # es[i].u
              THEN Append(acc, es[i].u) ELSE acc)

\* list(graph.predecessors(n)): each parent once, in the order in which its
\* first edge into n was added
predecessors(g, n) == Firsts(g.edges, n, 1, <<>>)

\* graph.get_edge_data(u, v): the edges from u to v, by key
get_edge_data(g, u, v) ==
  {g.edges[j] : j \in {i \in 1..Len(g.edges) :
                         g.edges[i].u = u /\ g.edges[i].v = v}}

----------------------------------------------------------------------------
(* src/probly.py *)

\* get_seed: the seed unchanged, or int.from_bytes(urandom(4), 'big')
get_seed(seed, entropy) == IF seed # None THEN seed ELSE entropy

\* mutant: the sum wraps at 2^w, not at 2^w - 1
derive_pow2(seed, id) == (seed + id) % TwoW

\* (seed + id(self)) % _max_seed
derive(seed, id) == (seed + id) % max_seed

\* parents = [parents[i] for i in indices]; IndexError when an index is not
\* a position of the list
rvar_reorder(g, n, parents) ==
  LET indices == [j \in 1..Len(parents) |->
                    (CHOOSE e \in get_edge_data(g, parents[j], n) : TRUE).index]
  IN  IF \A j \in 1..Len(parents) : indices[j] < Len(parents)
      THEN [ok |-> TRUE,
            ps |-> [j \in 1..Len(parents) |-> parents[indices[j] + 1]]]
      ELSE [ok |-> FALSE, ps |-> <<>>]

\* the dictionary `arguments` of rvarGen.__call__: index -> parent, over
\* every edge of every parent; samples are taken for 0..len(arguments)-1,
\* KeyError when one of them is no key
rvarGen_arguments(g, n, parents) ==
  LET es == UNION {get_edge_data(g, parents[j], n) : j \in 1..Len(parents)}
      keys == {e.index : e \in es}
      m == Cardinality(keys)
  IN  IF \A i \in 0..(m - 1) : i \in keys
      THEN [ok |-> TRUE,
            ps |-> [i \in 1..m |->
                      (CHOOSE e \in es : e.index = i - 1).u]]
      ELSE [ok |-> FALSE, ps |-> <<>>]

RECURSIVE rvar_call(_, _, _, _, _, _, _)
RECURSIVE rvar_samples(_, _, _, _, _, _, _)

\* samples = [p(seed) for p in parents]
rvar_samples(multi, os, g, ps, i, seed, acc) ==
  IF i > Len(ps) \/ ~acc.ok THEN acc
  ELSE LET r == rvar_call(multi, os, g, ps[i], seed, acc.st, 0)
       IN  rvar_samples(multi, os, g, ps, i + 1, seed,
                        [vals |-> Append(acc.vals, r.out), st |-> r.st,
                         ev |-> acc.ev \o r.ev, ok |-> r.out # Err])

\* rvar.__call__ (multi = FALSE) and rvarGen.__call__ (multi = TRUE)
rvar_call(multi, os, g, n, seed0, st, entropy) ==
  LET seed == get_seed(seed0, entropy)
      parents == predecessors(g, n)
  IN  IF parents = <<>>
      THEN LET s == derive(seed, os[n].id)
               r == SamplerCall(os[n].op, s, st)
           IN  [out |-> r.out, st |-> r.st, base |-> seed,
                ev |-> <<[node |-> n, seed |-> seed, local |-> s,
                          out |-> r.out]>>]
      ELSE LET o == IF multi THEN rvarGen_arguments(g, n, parents)
                    ELSE rvar_reorder(g, n, parents)
               a == rvar_samples(multi, os, g, o.ps, 1, seed,
                                 [vals |-> <<>>, st |-> st, ev |-> <<>>,
                                  ok |-> o.ok])
               out == IF a.ok THEN Apply(g.method[n], a.vals) ELSE Err
           IN  [out |-> out, st |-> a.st, base |-> seed,
                ev |-> Append(a.ev, [node |-> n, seed |-> seed,
                                     local |-> seed, out |-> out])]

\* rvarGen.__init__(sampler, origin): the sampler attribute it sets.
\* "npdraw" / "pydraw" are zero-argument samplers drawing from numpy.random /
\* random; Value(NoneV) as result: no attribute was set
rvarGen_init(sampler, origin) ==
  IF sampler = Value(NoneV) THEN [ok |-> TRUE, op |-> Value(NoneV)]
  ELSE IF ~callable(sampler) THEN [ok |-> FALSE, op |-> Value(NoneV)]
  ELSE CASE origin = "numpy" /\ sampler.k = "npdraw" ->
              [ok |-> TRUE, op |-> Fn("numpy")]
         [] origin = "random" /\ sampler.k = "pydraw" ->
              [ok |-> TRUE, op |-> Fn("random")]
         [] origin = "random" /\ sampler.k = "constfn" ->
              [ok |-> TRUE, op |-> [k |-> "seedconst", c |-> sampler.c]]
         [] OTHER -> [ok |-> FALSE, op |-> Value(NoneV)]

\* rvar.convert(obj): cls(lambda seed=None: obj); rvarGen._cast(obj) the
\* same through rvarGen.__init__ with origin='random'
convert(multi, c) ==
  IF multi THEN rvarGen_init(ConstFn(c), "random").op ELSE ConstFn(c)

\* an operand of a composition: a random variable (by its position in objs)
\* or a constant
RV(i) == [rv |-> TRUE, i |-> i, c |-> NoneV]
K(c) == [rv |-> FALSE, i |-> 0, c |-> c]

\* the constants among args[1..i], in order
RECURSIVE ConstsOf(_, _)
ConstsOf(args, i) ==
  IF i = 0 THEN <<>>
  ELSE IF args[i].rv THEN ConstsOf(args, i - 1)
  ELSE Append(ConstsOf(args, i - 1), args[i].c)

\* id(obj): the address of the object. Live objects have distinct addresses;
\* the allocator hands out consecutive ones, and may place an object in
\* another arena, max_seed beyond the first address
FarAddr == 1 + max_seed
Used(os) == {os[i].id : i \in 1..Len(os)}
LowFree(os) == CHOOSE a \in 1..(Len(os) + 1) :
                 a \notin Used(os) /\ \A b \in 1..(a - 1) : b \in Used(os)
Addrs(os) == {LowFree(os)} \cup ({FarAddr} \ Used(os))

Obj(id, op) == [id |-> id, offset |-> 0, op |-> op, parents |-> <<>>]

\* the objects convert / _cast makes for the constants cs, appended to os
RECURSIVE Converted(_, _, _, _)
Converted(multi, os, cs, i) ==
  IF i > Len(cs) THEN os
  ELSE Converted(multi, Append(os, Obj(LowFree(os), convert(multi, cs[i]))),
                 cs, i + 1)

\* [rvar.convert(var) for var in args], self being object number n and the
\* converted constants the objects after it
Operands(args, n) ==
  [i \in 1..Len(args) |->
     IF args[i].rv THEN args[i].i ELSE n + Len(ConstsOf(args, i))]

\* mutant: the node and its edges first, the assertion after them
rvar_init_late_assert(sampler, f, args, a, os, g) ==
  LET n == Len(os) + 1
      os1 == Append(os, Obj(a, sampler))
      bad == sampler # Value(NoneV) /\ ~callable(sampler)
  IN  IF f = Value(NoneV)
      THEN [ok |-> ~bad, objs |-> IF bad THEN os ELSE os1, graph |-> g]
      ELSE [ok |-> ~bad,
            objs |-> Converted(FALSE, os1, ConstsOf(args, Len(args)), 1),
            graph |-> add_edges_from(FALSE, add_node(g, n, f),
                                     Operands(args, n), n, 1)]

\* rvar.__init__(sampler, f, *args) on the new object `self` at address a:
\* the assertion, then the node and its edges. f = Value(NoneV) is f=None.
rvar_init(sampler, f, args, a, os, g) ==
  IF sampler # Value(NoneV) /\ ~callable(sampler)
  THEN [ok |-> FALSE, objs |-> os, graph |-> g]
  ELSE LET n == Len(os) + 1
           os1 == Append(os, Obj(a, sampler))
       IN  IF f = Value(NoneV)
           THEN [ok |-> TRUE, objs |-> os1, graph |-> g]
           ELSE [ok |-> TRUE,
                 objs |-> Converted(FALSE, os1, ConstsOf(args, Len(args)), 1),
                 graph |-> add_edges_from(FALSE, add_node(g, n, f),
                                          Operands(args, n), n, 1)]

----------------------------------------------------------------------------
(* src/probly/__init__.py *)

\* rvarGen._compose(f, *args): a bare object (no sampler), its node and edges
rvarGen_compose(f, args, a, os, g) ==
  LET n == Len(os) + 1
      os1 == Append(os, Obj(a, Value(NoneV)))
  IN  [objs |-> Converted(TRUE, os1, ConstsOf(args, Len(args)), 1),
       graph |-> add_edges_from(TRUE, add_node(g, n, f),
                                Operands(args, n), n, 1)]

----------------------------------------------------------------------------
(* src/probly/lib/utils.py. RandomVariable (core/random_variables) is not  *)
(* among the sources: its constructor is modelled from the specification   *)
(* of compose: every operand is cast to a node (a constant to a node with  *)
(* no parents that returns it), and the new node has the operation f and   *)
(* the cast operands as parents, in argument order. Ids come from a        *)
(* counter.                                                                *)

RECURSIVE Wrapped(_, _, _, _)
\* the nodes of the constants cs, appended to os with ids from id on
Wrapped(os, cs, i, id) ==
  IF i > Len(cs) THEN os
  ELSE Wrapped(Append(os, [id |-> id + i - 1, offset |-> 0,
                           op |-> ConstFn(cs[i]), parents |-> <<>>]),
               cs, i + 1, id)

\* RandomVariable(f, *args)
RandomVariable_new(f, args, os, id) ==
  LET cs == ConstsOf(args, Len(args))
      os1 == Wrapped(os, cs, 1, id)
      ps == [i \in 1..Len(args) |->
               IF args[i].rv THEN args[i].i
               ELSE Len(os) + Len(ConstsOf(args, i))]
  IN  [objs |-> Append(os1, [id |-> id + Len(cs), offset |-> 0, op |-> f,
                            parents |-> ps]),
       node |-> Len(os1) + 1,
       id |-> id + Len(cs) + 1,
       out |-> NoneV]

\* mutant: no short-circuit, a node is built whatever the arguments are
lifted_always(f, args, os, id) == RandomVariable_new(f, args, os, id)

\* lift(f)(*args): a new RandomVariable if an argument is one, else f(*args)
lifted(f, args, os, id) ==
  IF \E i \in 1..Len(args) : args[i].rv
  THEN RandomVariable_new(f, args, os, id)
  ELSE [objs |-> os, node |-> 0, id |-> id,
        out |-> Apply(f, [i \in 1..Len(args) |-> args[i].c])]

----------------------------------------------------------------------------
(* Inputs of the operations *)

\* constants a caller passes where a random variable is expected
Consts == {IntV(0), IntV(2), SeqV(<<1, 2>>)}
GraphConsts == {IntV(2)}
\* functions a caller composes with
BinOps == {"sub", "subt"}
\* seeds a caller supplies (max_seed is the largest numpy accepts at this
\* width), and what the system's entropy source may return
CallSeeds == {0, 1, max_seed}
Entropy == {2}

Nodes == 1..Len(objs)

NoGraph == [nodes |-> {}, method |-> <<>>, edges |-> <<>>]
NoLast == [op |-> "init", node |-> 0, seed |-> None, base |-> 0,
           out |-> NoneV, ev |-> <<>>, fn |-> Value(NoneV), args |-> <<>>,
           arity |-> 0]
\* a construction: the new object, the op / sampler / f and the constant
\* operands it was given
Made(n, fn, args) ==
  [NoLast EXCEPT !.op = "new", !.node = n, !.fn = fn, !.args = args]
Raised(fn) == [NoLast EXCEPT !.op = "raise", !.fn = fn]
Called(n, seed, r) ==
  [NoLast EXCEPT !.op = "call", !.node = n, !.seed = seed, !.base = r.base,
                 !.out = r.out, !.ev = r.ev]

----------------------------------------------------------------------------
(* Operations of src/probly/core.py *)

\* X = SomeDistr(...): an instance of a subclass of RandomVar
CoreDistr ==
  /\ impl = "RandomVar"
  /\ Len(objs) < MaxNodes
  /\ LET r == RandomVar_new(TRUE, Fn("numpy"), <<>>, last_id, rng)
     IN  /\ objs' = Append(objs, r.obj)
         /\ rng' = r.st
  /\ last_id' = last_id + 1
  /\ last' = Made(Len(objs) + 1, Fn("numpy"), <<>>)
  /\ UNCHANGED <<impl, graph, thr, built>>

\* RandomVar(op, *parents), called directly
CoreRandomVar(op, parents) ==
  /\ impl = "RandomVar"
  /\ Len(objs) < MaxNodes
  /\ LET r == RandomVar_new(FALSE, op, parents, last_id, rng)
     IN  /\ r.ok
         /\ objs' = Append(objs, r.obj)
         /\ rng' = r.st
  /\ last_id' = last_id + 1
  /\ last' = Made(Len(objs) + 1, op, <<>>)
  /\ UNCHANGED <<impl, graph, thr, built>>

\* RandomVar.__array_ufunc__ for numpy.subtract(x, c) / numpy.subtract(c, x):
\* the constant is cast with RandomVar(c), then RandomVar(partial, *inputs)
CoreUfunc(x, c, reflected) ==
  /\ impl = "RandomVar"
  /\ Len(objs) + 1 < MaxNodes
  /\ LET k == RandomVar_new(FALSE, Value(c), <<>>, last_id, rng)
         ki == Len(objs) + 1
         r == RandomVar_new(FALSE, Fn("sub"),
                            IF reflected THEN <<ki, x>> ELSE <<x, ki>>,
                            last_id + 1, k.st)
     IN  /\ objs' = Append(Append(objs, k.obj), r.obj)
         /\ rng' = r.st
  /\ last_id' = last_id + 2
  /\ last' = Made(Len(objs) + 2, Fn("sub"), <<c>>)
  /\ UNCHANGED <<impl, graph, thr, built>>

\* RandomVar.__getitem__(key), key = 0
CoreGetitem(x) ==
  /\ impl = "RandomVar"
  /\ Len(objs) < MaxNodes
  /\ LET r == RandomVar_new(FALSE, Fn("get"), <<x>>, last_id, rng)
     IN  /\ objs' = Append(objs, r.obj)
         /\ rng' = r.st
  /\ last_id' = last_id + 1
  /\ last' = Made(Len(objs) + 1, Fn("get"), <<>>)
  /\ UNCHANGED <<impl, graph, thr, built>>

\* X(seed)
CoreCall(n, seed, entropy) ==
  /\ impl = "RandomVar"
  /\ LET r == RandomVar_call(objs, n, seed, rng, entropy)
     IN  /\ rng' = r.st
         /\ last' = Called(n, seed, r)
  /\ UNCHANGED <<impl, objs, graph, last_id, thr, built>>

CoreNext ==
  \/ CoreDistr
  \/ \E f \in BinOps, x, y \in Nodes : CoreRandomVar(Fn(f), <<x, y>>)
  \/ \E x \in Nodes, c \in Consts, b \in BOOLEAN : CoreUfunc(x, c, b)
  \/ \E x \in Nodes : CoreGetitem(x)
  \/ \E n \in Nodes, s \in CallSeeds : CoreCall(n, s, 0)
  \/ \E n \in Nodes, e \in Entropy : CoreCall(n, None, e)

\* graphs of operations whose results are sequences of length 1
CollapseNext ==
  \/ CoreDistr
  \/ \E f \in {"wrap", "wrap2", "get"}, x \in Nodes :
       CoreRandomVar(Fn(f), <<x>>)
  \/ \E n \in Nodes, s \in CallSeeds : CoreCall(n, s, 0)

----------------------------------------------------------------------------
(* Operations of src/probly.py *)

Pairs(cs) ==
  {<<RV(x), RV(y)>> : x \in Nodes, y \in Nodes}
    \cup {<<RV(x), K(c)>> : x \in Nodes, c \in cs}
    \cup {<<K(c), RV(x)>> : x \in Nodes, c \in cs}

\* rvar(sampler, f, *args): every way the constructor is reached
RvarNew(sampler, f, args, a) ==
  /\ impl = "rvar"
  /\ Len(objs) + 1 + Len(ConstsOf(args, Len(args))) <= MaxNodes
  /\ LET r == rvar_init(sampler, f, args, a, objs, graph)
     IN  /\ objs' = r.objs
         /\ graph' = r.graph
         /\ last' = IF r.ok
                    THEN [Made(Len(objs) + 1,
                               IF sampler # Value(NoneV) THEN sampler ELSE f,
                               ConstsOf(args, Len(args)))
                            EXCEPT !.arity = Len(args)]
                    ELSE Raised(sampler)
  /\ UNCHANGED <<impl, last_id, rng, thr, built>>

\* rvar.from_numpy(numpy_sampler)
RvarFromNumpy(a) == RvarNew(Fn("numpy"), Value(NoneV), <<>>, a)

\* rvar.compose(f, *args), Lift(f)(*args) and the arithmetic operators
RvarCompose(f, args) == RvarNew(Value(NoneV), f, args, LowFree(objs))

\* rvar.getitem(obj, key), key = 0
RvarGetitem(x) == RvarCompose(Fn("get"), <<RV(x)>>)

\* X(seed)
RvarCall(n, seed, entropy) ==
  /\ impl = "rvar"
  /\ LET r == rvar_call(FALSE, objs, graph, n, seed, rng, entropy)
     IN  /\ rng' = r.st
         /\ last' = Called(n, seed, r)
  /\ UNCHANGED <<impl, objs, graph, last_id, thr, built>>

RvarNext ==
  \/ \E a \in Addrs(objs) : RvarFromNumpy(a)
  \/ RvarNew(Value(IntV(2)), Value(NoneV), <<>>, LowFree(objs))
  \/ \E x \in Nodes : RvarNew(Value(IntV(2)), Fn("get"), <<RV(x)>>, LowFree(objs))
  \/ \E args \in Pairs(GraphConsts) : RvarCompose(Fn("sub"), args)
  \/ \E x \in Nodes : RvarGetitem(x)
  \/ \E n \in Nodes, s \in CallSeeds : RvarCall(n, s, 0)
  \/ \E n \in Nodes, e \in Entropy : RvarCall(n, None, e)

----------------------------------------------------------------------------
(* Operations of src/probly/__init__.py *)

\* rvarGen(sampler, origin)
GenNew(sampler, origin, a) ==
  /\ impl = "rvarGen"
  /\ Len(objs) < MaxNodes
  /\ LET r == rvarGen_init(sampler, origin)
     IN  /\ objs' = IF r.ok THEN Append(objs, Obj(a, r.op)) ELSE objs
         /\ last' = IF r.ok THEN Made(Len(objs) + 1, sampler, <<>>)
                    ELSE Raised(sampler)
  /\ UNCHANGED <<impl, graph, last_id, rng, thr, built>>

\* rvarGen.Lift(f)(*args)
GenLift(f, args) ==
  /\ impl = "rvarGen"
  /\ Len(objs) + 1 + Len(ConstsOf(args, Len(args))) <= MaxNodes
  /\ LET r == rvarGen_compose(f, args, LowFree(objs), objs, graph)
     IN  /\ objs' = r.objs
         /\ graph' = r.graph
  /\ last' = Made(Len(objs) + 1, f, ConstsOf(args, Len(args)))
  /\ UNCHANGED <<impl, last_id, rng, thr, built>>

\* X(seed)
GenCall(n, seed, entropy) ==
  /\ impl = "rvarGen"
  /\ LET r == rvar_call(TRUE, objs, graph, n, seed, rng, entropy)
     IN  /\ rng' = r.st
         /\ last' = Called(n, seed, r)
  /\ UNCHANGED <<impl, objs, graph, last_id, thr, built>>

GenNext ==
  \/ \E a \in Addrs(objs) : GenNew(Fn("npdraw"), "numpy", a)
  \/ GenNew(Value(IntV(2)), "numpy", LowFree(objs))
  \/ GenNew(Fn("npdraw"), "gauss", LowFree(objs))
  \/ \E args \in Pairs(GraphConsts) : GenLift(Fn("sub"), args)
  \/ \E n \in Nodes, s \in CallSeeds : GenCall(n, s, 0)
  \/ \E n \in Nodes, e \in Entropy : GenCall(n, None, e)

----------------------------------------------------------------------------
(* Operations of src/probly/lib/utils.py *)

\* const(c) of a constant: RandomVariable(lambda _: c)
LiftConst(c) ==
  /\ impl = "lift"
  /\ Len(objs) < MaxNodes
  /\ LET r == RandomVariable_new(ConstFn(c), <<>>, objs, last_id)
     IN  /\ objs' = r.objs
         /\ last_id' = r.id
         /\ last' = Made(r.node, ConstFn(c), <<>>)
  /\ UNCHANGED <<impl, graph, rng, thr, built>>

\* lift(f)(*args)
LiftApply(f, args) ==
  /\ impl = "lift"
  /\ LET r == lifted(f, args, objs, last_id)
     IN  /\ Len(r.objs) <= MaxNodes
         /\ objs' = r.objs
         /\ last_id' = r.id
         /\ last' = [NoLast EXCEPT !.op = "lift", !.node = r.node, !.fn = f,
                                   !.args = args, !.out = r.out]
  /\ UNCHANGED <<impl, graph, rng, thr, built>>

LiftNext ==
  \/ \E c \in Consts : LiftConst(c)
  \/ \E f \in BinOps, args \in Pairs(GraphConsts) : LiftApply(Fn(f), args)
  \/ \E c \in Consts, d \in Consts : LiftApply(Fn("sub"), <<K(c), K(d)>>)
  \/ \E x \in Nodes : LiftApply(Fn("get"), <<RV(x)>>)
  \/ \E c \in Consts : LiftApply(Fn("get"), <<K(c)>>)

----------------------------------------------------------------------------
(* Two threads, each evaluating one leaf of a finished graph. A call is    *)
(* the statements of the code in order; the threads interleave between     *)
(* statements that touch the generator of the numpy module, which is one   *)
(* object for the whole process.                                           *)

Threads == 1..2

Idle == [pc |-> "idle", node |-> 0, seed |-> None, base |-> 0, local |-> 0,
         out |-> NoneV]

\* construction is over: from here on the graph is only evaluated
Finish ==
  /\ ~built
  /\ thr = <<>>
  /\ Len(objs) >= 1
  /\ built' = TRUE
  /\ thr' = [t \in Threads |-> Idle]
  /\ UNCHANGED <<impl, objs, graph, last_id, rng, last>>

\* thread t enters X(seed) for the leaf X = objs[n]; rvar.__call__ gets the
\* seed back from get_seed and derives the sampler's seed from id(self)
ThrCall(t, n, seed) ==
  /\ built
  /\ thr[t].pc = "idle"
  /\ objs[n].op.k = "numpy"
  /\ thr' = [thr EXCEPT ![t] =
       IF impl = "RandomVar"
       THEN [Idle EXCEPT !.pc = "get_seed", !.node = n, !.seed = seed]
       ELSE [Idle EXCEPT !.pc = "sampler", !.node = n, !.seed = seed,
                         !.base = seed, !.local = derive(seed, objs[n].id)]]
  /\ UNCHANGED <<impl, objs, graph, last_id, rng, last, built>>

\* RandomVar.get_seed: np.random.seed(seed)
ThrGetSeedSeed(t) ==
  /\ built
  /\ thr[t].pc = "get_seed"
  /\ rng' = [rng EXCEPT !.np = Seeded(thr[t].seed)]
  /\ thr' = [thr EXCEPT ![t].pc = "get_state"]
  /\ UNCHANGED <<impl, objs, graph, last_id, last, built>>

\* RandomVar.get_seed: np.random.get_state()[1][0], then the offset is added
ThrGetSeedRead(t) ==
  /\ built
  /\ thr[t].pc = "get_state"
  /\ thr' = [thr EXCEPT ![t].pc = "sampler",
                        ![t].base = Word0(rng.np),
                        ![t].local = new_seed(Word0(rng.np),
                                              objs[thr[t].node].offset)]
  /\ UNCHANGED <<impl, objs, graph, last_id, rng, last, built>>

\* the sampler: np.random.seed(seed)
ThrSamplerSeed(t) ==
  /\ built
  /\ thr[t].pc = "sampler"
  /\ rng' = [rng EXCEPT !.np = Seeded(thr[t].local)]
  /\ thr' = [thr EXCEPT ![t].pc = "draw"]
  /\ UNCHANGED <<impl, objs, graph, last_id, last, built>>

\* the sampler: the draw from the generator of the module
ThrSamplerDraw(t) ==
  /\ built
  /\ thr[t].pc = "draw"
  /\ rng' = [rng EXCEPT !.np = Advance(rng.np)]
  /\ thr' = [thr EXCEPT ![t].pc = "done", ![t].out = IntV(Draw(rng.np))]
  /\ UNCHANGED <<impl, objs, graph, last_id, last, built>>

ThreadsNext ==
  \/ ~built /\ CoreDistr
  \/ \E a \in Addrs(objs) : ~built /\ RvarFromNumpy(a)
  \/ Finish
  \/ \E t \in Threads, n \in Nodes, s \in CallSeeds : ThrCall(t, n, s)
  \/ \E t \in Threads : ThrGetSeedSeed(t)
  \/ \E t \in Threads : ThrGetSeedRead(t)
  \/ \E t \in Threads : ThrSamplerSeed(t)
  \/ \E t \in Threads : ThrSamplerDraw(t)

----------------------------------------------------------------------------
(* rvar.array of k leaves, in a store whose adjacency query is free to     *)
(* return the parents of a node in any order: the order of the edges of    *)
(* the node is drawn at the start.                                         *)

MaxArity == 3

Perms(k) ==
  {p \in [1..k -> 1..k] : \A i \in 1..k : \A j \in 1..k : p[i] = p[j] => i = j}

RECURSIVE Leaves(_)
\* k leaves made by rvar.from_numpy, at the addresses 1..k
Leaves(k) ==
  IF k = 0 THEN <<>>
  ELSE rvar_init(Fn("numpy"), Value(NoneV), <<>>, k, Leaves(k - 1), NoGraph).objs

\* rvar.array([X1, ..., Xk]) = rvar.compose(make_array, X1, ..., Xk)
ArrayOf(k) ==
  rvar_init(Value(NoneV), Fn("array"), [i \in 1..k |-> RV(i)], k + 1,
            Leaves(k), NoGraph)

InitReorder ==
  /\ impl = "rvar"
  /\ \E k \in 1..MaxArity : \E p \in Perms(k) :
       /\ objs = ArrayOf(k).objs
       /\ graph = [ArrayOf(k).graph EXCEPT
                     !.edges = [j \in 1..k |-> ArrayOf(k).graph.edges[p[j]]]]
  /\ last_id = 1
  /\ rng = [np |-> 0, py |-> 0]
  /\ last = NoLast
  /\ thr = <<>>
  /\ built = FALSE

ReorderNext ==
  \/ \E n \in Nodes, s \in CallSeeds : RvarCall(n, s, 0)
  \/ \E n \in Nodes, e \in Entropy : RvarCall(n, None, e)

----------------------------------------------------------------------------

Impls == {"rvar", "rvarGen", "RandomVar", "lift"}

Init ==
  /\ impl \in Impls
  /\ objs = <<>>
  /\ graph = NoGraph
  /\ last_id = 1
  /\ rng = [np |-> 0, py |-> 0]
  /\ last = NoLast
  /\ thr = <<>>
  /\ built = FALSE

Next == RvarNext \/ GenNext \/ CoreNext \/ LiftNext

InitOf(is) ==
  /\ Init
  /\ impl \in is

SpecCore == InitOf({"RandomVar"}) /\ [][CoreNext]_vars
SpecGraph == InitOf({"rvar", "rvarGen"}) /\ [][RvarNext \/ GenNext]_vars
SpecCollapse == InitOf({"RandomVar"}) /\ [][CollapseNext]_vars
SpecReorder == InitReorder /\ [][ReorderNext]_vars
SpecLift == InitOf({"lift"}) /\ [][LiftNext]_vars
SpecThreads == InitOf({"rvar", "RandomVar"}) /\ [][ThreadsNext]_vars
SpecEval ==
  InitOf({"rvar", "rvarGen", "RandomVar"})
    /\ [][RvarNext \/ GenNext \/ CoreNext]_vars

Spec == Init /\ [][Next]_vars

----------------------------------------------------------------------------
(* What the claims are stated over *)

\* N(seed) of the loaded revision, over the objects os and the graph g, the
\* generators being in state st
CallIn(os, g, st, n, seed) ==
  IF impl = "RandomVar" THEN RandomVar_call(os, n, seed, st, 0)
  ELSE rvar_call(impl = "rvarGen", os, g, n, seed, st, 0)

\* N(seed) in the current state
Call(n, seed) == CallIn(objs, graph, rng, n, seed)
CallOut(n, seed) == Call(n, seed).out

\* the parents of a node, in the order the revision keeps them
ParentsOf(n) ==
  IF impl = "RandomVar" THEN objs[n].parents ELSE predecessors(graph, n)

IsLeaf(n) == ParentsOf(n) = <<>>

\* the seed a leaf's sampler is handed when the leaf is called with seed s
LocalSeed(n, s) ==
  LET ev == Call(n, s).ev IN ev[Len(ev)].local

EvIdx == 1..Len(last.ev)

----------------------------------------------------------------------------
(* C1 *)

ReturnsWhatACallNowReturns ==
  (last.op = "call" /\ last.seed # None)
    => last.out = CallOut(last.node, last.seed)

\* the generators as they are at start-up
Fresh == [np |-> 0, py |-> 0]

ValueIn(os, g, n, s) == CallIn(os, g, Fresh, n, s).out

\* the state the generators are in has no part in the value of N(s)
GeneratorHasNoPart ==
  \A n \in Nodes : \A s \in CallSeeds : CallOut(n, s) = ValueIn(objs, graph, n, s)

\* a step that changes the objects or the graph keeps the value of N(s)
NoStepChangesAValue ==
  \/ objs' = objs /\ graph' = graph
  \/ \A n \in Nodes : \A s \in CallSeeds :
       ValueIn(objs', graph', n, s) = ValueIn(objs, graph, n, s)

\* C1: a call N(s) with a supplied seed returns the value that N(s) returns
\* in the state it leaves behind; the value of N(s) is the same in whatever
\* state earlier calls left the generators; and no construction changes the
\* value of N(s) for an existing node N. So two invocations N(s) return the
\* same value whatever happens between them.
C1_Determinism ==
  [](ReturnsWhatACallNowReturns /\ GeneratorHasNoPart)
    /\ [][NoStepChangesAValue]_vars

\* a random leaf was called with a supplied seed after two other objects
\* were constructed and the generators were left in another state
C1_Witness ==
  /\ last.op = "call"
  /\ last.seed # None
  /\ last.node = 1
  /\ Len(objs) = 3
  /\ objs[1].op.k = "numpy"
  /\ last.out # Err

----------------------------------------------------------------------------
(* C2 *)

TwoParentCall ==
  /\ impl = "RandomVar"
  /\ last.op = "call"
  /\ Len(objs[last.node].parents) = 2

\* f(x(s), y(s)), the parents called directly with the seed of the call
OfParents(n, s) ==
  Apply(objs[n].op, <<CallOut(objs[n].parents[1], s),
                      CallOut(objs[n].parents[2], s)>>)

\* C2 as stated: for R = RandomVar(f, x, y), R(s) = f(x(s), y(s))
C2_Original ==
  TwoParentCall => last.out = OfParents(last.node, last.base)

\* C2, amended: for R = RandomVar(f, x, y), R(s) is f(x(s), y(s)) with a
\* result of length 1 replaced by its only element
C2_Positional ==
  TwoParentCall => last.out = Collapse(OfParents(last.node, last.base))

\* R = x - y was called, and its parents' values differ
C2_Witness ==
  /\ TwoParentCall
  /\ objs[last.node].op.k = "sub"
  /\ last.out # Err
  /\ last.out # IntV(0)

----------------------------------------------------------------------------
(* C3 *)

\* C3: within one call of a RandomVar, every evaluation of the same node is
\* made with the same seed, hands the same seed to its operation and yields
\* the same value
C3_Diamond ==
  (impl = "RandomVar" /\ last.op = "call")
    => \A i \in EvIdx : \A j \in EvIdx :
         last.ev[i].node = last.ev[j].node
           => /\ last.ev[i].seed = last.ev[j].seed
              /\ last.ev[i].local = last.ev[j].local
              /\ last.ev[i].out = last.ev[j].out

\* Z = h(X, Y), Y = g(X, ..) was called: the sampler of the leaf X ran as a
\* parent of Z and again below Y
C3_Witness ==
  /\ impl = "RandomVar"
  /\ last.op = "call"
  /\ last.out # Err
  /\ \E x \in Nodes, y \in Nodes :
       /\ objs[x].op.k = "numpy"
       /\ objs[last.node].parents = <<x, y>>
       /\ objs[y].parents = <<x, x>>
       /\ Cardinality({i \in EvIdx : last.ev[i].node = x}) = 3

----------------------------------------------------------------------------
(* C4 *)

\* C4: in a call of an rvar / rvarGen the base seed is the supplied seed, or
\* the one get_seed generated at the top; every node below is called with
\* that base seed, and every leaf hands (base + id) mod (2^w - 1) to its
\* sampler
C4_LeafSeeds ==
  (impl \in {"rvar", "rvarGen"} /\ last.op = "call")
    => /\ last.seed # None => last.base = last.seed
       /\ last.seed = None => last.base \in Entropy
       /\ \A i \in EvIdx :
            /\ last.ev[i].seed = last.base
            /\ IsLeaf(last.ev[i].node)
                 => last.ev[i].local
                      = (last.base + objs[last.ev[i].node].id) % (2 ^ SeedBits - 1)

\* a derived node was called without a seed and sampled a random leaf below
\* it whose address wraps around the modulus
C4_Witness ==
  /\ impl \in {"rvar", "rvarGen"}
  /\ last.op = "call"
  /\ last.seed = None
  /\ ~IsLeaf(last.node)
  /\ last.out # Err
  /\ \E i \in EvIdx :
       /\ objs[last.ev[i].node].op.k = "numpy"
       /\ last.base + objs[last.ev[i].node].id > max_seed

----------------------------------------------------------------------------
(* C5 *)

\* C5 as stated: two distinct leaves are handed different seeds for the
\* same base seed
C5_Decorrelated ==
  \A a \in Nodes : \A b \in Nodes :
    (a # b /\ IsLeaf(a) /\ IsLeaf(b))
      => \A s \in CallSeeds : LocalSeed(a, s) # LocalSeed(b, s)

----------------------------------------------------------------------------
(* C6 *)

\* C6 as stated: the node RandomVar(c) that __array_ufunc__ makes of a
\* constant operand c has no parents and returns c for every seed
C6_ConstantReturned ==
  (impl = "RandomVar" /\ last.op = "new" /\ last.args # <<>>)
    => /\ objs[last.node - 1].parents = <<>>
       /\ \A s \in CallSeeds : CallOut(last.node - 1, s) = last.args[1]

----------------------------------------------------------------------------
(* C7 *)

AnyRandom(args) == \E i \in 1..Len(args) : args[i].rv

\* the node lift builds: the last object, with operation f and the operands
\* as parents in argument order, a constant operand as a node that returns it
LiftedNode ==
  /\ last.node = Len(objs)
  /\ objs[last.node].op = last.fn
  /\ Len(objs[last.node].parents) = Len(last.args)
  /\ \A i \in 1..Len(last.args) :
       LET q == objs[last.node].parents[i]
       IN  IF last.args[i].rv THEN q = last.args[i].i
           ELSE /\ q \in 1..(last.node - 1)
                /\ objs[q].parents = <<>>
                /\ objs[q].op = ConstFn(last.args[i].c)

\* the value of f(*args) for constant arguments
Eager ==
  /\ last.node = 0
  /\ last.out = Apply(last.fn, [i \in 1..Len(last.args) |-> last.args[i].c])

LiftResult ==
  last.op = "lift" => IF AnyRandom(last.args) THEN LiftedNode ELSE Eager

EagerStepBuildsNothing ==
  (last'.op = "lift" /\ ~AnyRandom(last'.args))
    => (objs' = objs /\ graph' = graph /\ last_id' = last_id)

\* C7: lift(f)(*args) returns a new node with operation f and the arguments
\* as parents in order when an argument is a random variable; otherwise it
\* returns f(*args), and that step adds no object, no edge and takes no id
C7_LiftShortCircuit == [](LiftResult) /\ [][EagerStepBuildsNothing]_vars

\* lift(f)(2, 0) was computed eagerly while random variables exist
C7_Witness ==
  /\ last.op = "lift"
  /\ ~AnyRandom(last.args)
  /\ last.out = IntV(2)
  /\ Len(objs) > 0

----------------------------------------------------------------------------
(* C8 *)

\* C8 as stated: a call that finished in a thread returned the value the
\* same call returns when it runs alone
C8_ConcurrentCallsAlone ==
  built => \A t \in Threads :
             thr[t].pc = "done"
               => thr[t].out = CallOut(thr[t].node, thr[t].seed)

----------------------------------------------------------------------------
(* C9 *)

NonCallable(fn) == fn.k = "value" /\ fn.c # NoneV

RejectedInConstructor ==
  (last.op \in {"new", "raise"} /\ NonCallable(last.fn)) => last.op = "raise"

FailureLeavesTheStore ==
  last'.op = "raise" => (graph' = graph /\ objs' = objs)

\* C9: rvar / rvarGen given a sampler that is neither None nor callable
\* raises in the constructor, and the step that raises leaves the nodes and
\* edges of the graph (and the objects) as they were
C9_RejectedAtConstruction ==
  [](RejectedInConstructor) /\ [][FailureLeavesTheStore]_vars

\* a construction with the sampler 2 was rejected while the graph has edges
C9_Witness ==
  /\ impl = "rvar"
  /\ last.op = "raise"
  /\ NonCallable(last.fn)
  /\ graph # NoGraph
  /\ Len(objs) >= 2

----------------------------------------------------------------------------
(* C10 *)

\* C10 as stated: an indexing node X[key] exists only if the sample of X at
\* seed 0 supports indexing
C10_IndexValidatedAtConstruction ==
  (last.op = "new" /\ last.fn = Fn("get") /\ impl \in {"rvar", "RandomVar"})
    => CallOut(ParentsOf(last.node)[1], 0).t = "seq"

----------------------------------------------------------------------------
(* C11 *)

\* `self in rvar.graph`
InGraph(n) == n \in graph.nodes

\* C11 as stated: a call of an object that is no node of the graph raises
C11_AbsentNodeRaises ==
  (impl \in {"rvar", "rvarGen"} /\ last.op = "call" /\ ~InGraph(last.node))
    => last.out = Err

----------------------------------------------------------------------------
(* C12 *)

\* the edges into node n
EdgesInto(n) == {j \in 1..Len(graph.edges) : graph.edges[j].v = n}

\* the index values on the edges into n are 0..k-1, each on one edge
Dense(n, k) ==
  /\ Cardinality(EdgesInto(n)) = k
  /\ \A i \in 0..(k - 1) :
       Cardinality({j \in EdgesInto(n) : graph.edges[j].index = i}) = 1

\* C12 as stated: every node of the graph of rvar has the positions
\* 0..k-1 on its incoming edges, each once, k being the number of its
\* incoming edges, and for the node just built k is the number of operands
\* it was built from
C12_DensePositions ==
  impl = "rvar" =>
    /\ \A n \in DOMAIN graph.method : Dense(n, Cardinality(EdgesInto(n)))
    /\ (last.op = "new" /\ last.arity > 0) => Dense(last.node, last.arity)

----------------------------------------------------------------------------
(* C13 *)

\* the parent of n whose edge carries position i
AtPosition(n, i) ==
  graph.edges[CHOOSE j \in EdgesInto(n) : graph.edges[j].index = i].u

\* C13 as stated: whatever order the parents of the array node are returned
\* in, argument i of make_array is the sample of the parent at position i
C13_BoundByPosition ==
  (impl = "rvar" /\ last.op = "call" /\ last.node \in DOMAIN graph.method
     /\ graph.method[last.node] = Fn("array"))
    => last.out = SeqV([i \in 1..Cardinality(EdgesInto(last.node)) |->
                          CallOut(AtPosition(last.node, i - 1), last.base).v[1]])

----------------------------------------------------------------------------
(* C14 *)

\* what the operation of the node of evaluation e returned: the sampler's
\* value for a root, and for another node its operation applied to the
\* values its parents return
OpResult(e) ==
  LET ps == objs[e.node].parents
  IN  IF ps = <<>> THEN SamplerCall(objs[e.node].op, e.local, rng).out
      ELSE Apply(objs[e.node].op,
                 [j \in 1..Len(ps) |-> CallOut(ps[j], e.local)])

\* C14: every node evaluated in a call returns the single element of its
\* operation's result when that result has length 1, with nothing unwrapped
\* below that one level, and returns the result itself otherwise; the
\* operation is applied to the values the parents return, which are
\* collapsed the same way
C14_CollapsedOnce ==
  (impl = "RandomVar" /\ last.op = "call") =>
    \A i \in EvIdx :
      last.ev[i].out = IF HasLenOne(OpResult(last.ev[i]))
                       THEN Item0(OpResult(last.ev[i]))
                       ELSE OpResult(last.ev[i])

\* a node whose operation returned [[n]] returned [n], and its child [[n]]
\* was called and returned [n] in turn
C14_Witness ==
  /\ impl = "RandomVar"
  /\ last.op = "call"
  /\ objs[last.node].op = Fn("wrap")
  /\ \E x \in Nodes :
       /\ objs[last.node].parents = <<x>>
       /\ objs[x].op = Fn("wrap2")
       /\ HasLenOne(CallOut(x, last.base))
  /\ last.out.t = "seq"
  /\ Len(last.out.v) = 1

====
